---- MODULE Spec2Model ----
(***************************************************************************)
(* Subdomain reservation and registration-session protocol of the          *)
(* company-registration wizard (RegistrationService over a Firestore       *)
(* document store).  Every await of the service is one atomic store        *)
(* access; calls of different clients interleave between their awaits.     *)
(* Time is a counter of ticks; a reservation lasts ReservationTTL ticks    *)
(* and a draft DraftTTL ticks (seven days each in the code).               *)
(***************************************************************************)
EXTENDS Integers, Sequences, FiniteSets, TLC

\* ------------------------------------------------------------------ bounds
\* The clock stops at MaxClock; at most MaxCompanies company ids are handed
\* out; the two lifetimes are counted in ticks.
MaxClock == 2
ReservationTTL == 1
MaxCompanies == 2
DraftTTL == 1

\* ------------------------------------------------------------ value spaces
Clients == {"c1", "c2"}
RegIds == {"r1", "r2"}
NoId == "none"
NoCompany == 0
NoTime == -1
NoSub == <<>>
NoRec == [status |-> "absent"]

\* Subdomain names are sequences of characters.  Acme is well formed, Www is a
\* reserved word and Ab is too short.  The form schema (min 3 characters)
\* keeps Ab from ever being reserved, so the store holds the other two keys.
\* Empty and WwwUpper (a reserved word in mixed case) are names a check can
\* be asked about.
Acme == <<"a", "c", "m", "e">>
Www == <<"w", "w", "w">>
Ab == <<"a", "b">>
Empty == <<>>
WwwUpper == <<"W", "w", "W">>
Subdomains == {Acme, Www}
CheckedNames == Subdomains \cup {Ab, Empty, WwwUpper}
CompanyIds == 1..MaxCompanies
NoDraft == [status |-> "absent"]
NoData == "null"
Payloads == {"data"}
FlowNames == {Acme}
FlowChecked == FlowNames \cup {WwwUpper}
FlowClients == {"c1"}

MinSubdomainLength == 3

\* String.prototype.toLowerCase on the characters the keys use.
LowerChar(c) ==
    CASE c = "A" -> "a"
      [] c = "W" -> "w"
      [] OTHER -> c

toLowerCase(s) == [i \in 1..Len(s) |-> LowerChar(s[i])]

reservedSubdomains ==
    { <<"a", "d", "m", "i", "n">>,
      <<"a", "p", "i">>,
      <<"w", "w", "w">>,
      <<"a", "p", "p">>,
      <<"d", "a", "s", "h", "b", "o", "a", "r", "d">>,
      <<"s", "t", "a", "g", "i", "n", "g">>,
      <<"d", "e", "v">>,
      <<"t", "e", "s", "t">>,
      <<"s", "u", "p", "p", "o", "r", "t">>,
      <<"h", "e", "l", "p">>,
      <<"d", "o", "c", "s">>,
      <<"b", "l", "o", "g">>,
      <<"m", "a", "i", "l">>,
      <<"f", "t", "p">>,
      <<"c", "d", "n">>,
      <<"s", "t", "a", "t", "i", "c">>,
      <<"p", "o", "r", "t", "a", "l">>,
      <<"k", "i", "o", "s", "k">>,
      <<"r", "e", "p", "o", "r", "t", "s">>,
      <<"a", "n", "a", "l", "y", "t", "i", "c", "s">>,
      <<"b", "i", "l", "l", "i", "n", "g">>,
      <<"a", "u", "t", "h">> }

\* ------------------------------------------------------------------- state
\* now          the clock (client Date.now() and the store's request.time)
\* subdomains   the subdomains collection, keyed by subdomain
\* drafts       the draft_registrations collection, keyed by registration id
\* companies    the companies collection, keyed by company id
\* nextCompany  the next company id the generator hands out
\* proc         each client's call in flight: its arguments and where it stands
\* result       what the step just taken returned or threw, if it ended a call
\* stamped      whether the metadata timestamps createdAt and updatedAt of the
\*              subdomain records are followed; no operation and no rule reads
\*              them, and a specification that does not follow them records
\*              NoTime in their place
\* saver        one auto-saver returned by createAutoSaver: its timer, the data
\*              it holds and what it has saved
\* sweep        one run of a sweep over many expired documents: how many the
\*              query found and the write batches built from them
VARIABLES now, subdomains, drafts, companies, nextCompany, proc, result, stamped,
          saver, sweep

vars == <<now, subdomains, drafts, companies, nextCompany, proc, result, stamped,
          saver, sweep>>

\* What the calls of RegistrationService leave alone.
Offstage == <<stamped, saver, sweep>>

NoResult ==
    [op |-> "none", s |-> NoSub, id |-> NoId, kind |-> "none", available |-> FALSE,
     status |-> "none", names |-> NoId, count |-> 0]

IdleProc ==
    [op |-> "idle", pc |-> "idle", s |-> NoSub, id |-> NoId, cid |-> NoCompany,
     exp |-> NoTime, batch |-> {}]

\* Empty collections, no call in flight.
Blank ==
    /\ now = 0
    /\ subdomains = [s \in Subdomains |-> NoRec]
    /\ drafts = [r \in RegIds |-> NoDraft]
    /\ companies = [c \in CompanyIds |-> NoRec]
    /\ nextCompany = 1
    /\ proc = [p \in Clients |-> IdleProc]
    /\ result = NoResult

\* No auto-saver has been created.
NoSaver == [reads |-> "none"]

\* No sweep over a large collection is followed.
NoSweep == [of |-> "none"]

Init == Blank /\ stamped = FALSE /\ saver = NoSaver /\ sweep = NoSweep

InitStamped == Blank /\ stamped = TRUE /\ saver = NoSaver /\ sweep = NoSweep

\* serverTimestamp(): the store's time at the write.
serverTimestamp == IF stamped THEN now ELSE NoTime

\* ------------------------------------------------------- store primitives
Exists(rec) == rec.status # "absent"

\* Faulty variant: the rule admits the delete of any record.
AllowDelete_Any(rec, t) == Exists(rec)

\* firestore.rules, match /subdomains/{subdomain}: allow delete.  An anonymous
\* client is no super admin; on a missing document resource is null and the
\* rule's read of resource.data fails, which denies.
AllowDelete(rec, t) ==
    /\ Exists(rec)
    /\ rec.status = "pending"
    /\ rec.expiresAt # NoTime
    /\ rec.expiresAt < t

\* A call in flight moves on to its next await.
Goto(p, op, s, id, cid, pc) ==
    [proc EXCEPT ![p].op = op, ![p].s = s, ![p].id = id, ![p].cid = cid, ![p].pc = pc]

\* A call ends: the client is free for its next call.
Ended(p) == [proc EXCEPT ![p] = IdleProc]

Outcome(op, s, id, kind, avail, st, who, n) ==
    [op |-> op, s |-> s, id |-> id, kind |-> kind, available |-> avail,
     status |-> st, names |-> who, count |-> n]

Registry == <<drafts, companies, nextCompany>>

\* -------------------------------------------- checkSubdomainAvailability
Answer(s, excl, avail, st) == Outcome("check", s, excl, "ok", avail, st, NoId, 0)

\* getDoc(doc(db, 'subdomains', s)): the document under the key, none under a
\* name that was never a key.
Stored(s) == IF s \in Subdomains THEN subdomains[s] ELSE NoRec

\* Faulty variant: the length test is left out.
PreCheck_NoLength(s) ==
    IF toLowerCase(s) \in reservedSubdomains THEN "reserved" ELSE "lookup"

\* Faulty variant: the reserved-word test compares the name as typed.
PreCheck_CaseSensitive(s) ==
    IF Len(s) < MinSubdomainLength THEN "too_short"
    ELSE IF s \in reservedSubdomains THEN "reserved"
    ELSE "lookup"

\* The checks made before the store is read.
PreCheck(s) ==
    IF Len(s) < MinSubdomainLength THEN "too_short"
    ELSE IF toLowerCase(s) \in reservedSubdomains THEN "reserved"
    ELSE "lookup"

\* Faulty variant: any exclusion id, the owner's or not, answers available.
CheckOnRecord_AnyExclusion(rec, excl, t) ==
    IF ~Exists(rec) THEN "available"
    ELSE IF excl # NoId THEN "available"
    ELSE IF rec.status = "pending" /\ rec.expiresAt # NoTime /\ rec.expiresAt < t
         THEN "delete"
    ELSE IF rec.status = "active" THEN "taken" ELSE "reserved"

\* Faulty variant: the self-exclusion test is left out.
CheckOnRecord_NoSelf(rec, excl, t) ==
    IF ~Exists(rec) THEN "available"
    ELSE IF rec.status = "pending" /\ rec.expiresAt # NoTime /\ rec.expiresAt < t
         THEN "delete"
    ELSE IF rec.status = "active" THEN "taken" ELSE "reserved"

\* Faulty variant: the expiry test is left out, an expired reservation counts
\* as reserved.
CheckOnRecord_NoExpiry(rec, excl, t) ==
    IF ~Exists(rec) THEN "available"
    ELSE IF excl # NoId /\ rec.registrationId = excl THEN "available"
    ELSE IF rec.status = "active" THEN "taken" ELSE "reserved"

\* Faulty variant: an active record is taken, whoever asks.
CheckOnRecord_ActiveFirst(rec, excl, t) ==
    IF ~Exists(rec) THEN "available"
    ELSE IF rec.status = "active" THEN "taken"
    ELSE IF excl # NoId /\ rec.registrationId = excl THEN "available"
    ELSE IF rec.status = "pending" /\ rec.expiresAt # NoTime /\ rec.expiresAt < t
         THEN "delete"
    ELSE "reserved"

\* The decision on the record the read returned: the answer, or "delete" for
\* the lazy deletion of an expired pending reservation.
CheckOnRecord(rec, excl, t) ==
    IF ~Exists(rec) THEN "available"
    ELSE IF excl # NoId /\ rec.registrationId = excl THEN "available"
    ELSE IF rec.status = "pending" /\ rec.expiresAt # NoTime /\ rec.expiresAt < t
         THEN "delete"
    ELSE IF rec.status = "active" THEN "taken" ELSE "reserved"

\* Faulty variant: the catch answers available.
CheckFailed_Open(s, excl) == Answer(s, excl, TRUE, "error")

\* What the catch block returns when a store access throws.
CheckFailed(s, excl) == Answer(s, excl, FALSE, "error")

\* The call up to and including its read; ok says whether the store answers
\* the read.
CheckRead(p, s, excl, ok) ==
    /\ result = NoResult
    /\ UNCHANGED Offstage
    /\ proc[p].pc = "idle"
    /\ IF PreCheck(s) # "lookup"
       THEN /\ result' = Answer(s, excl, FALSE, PreCheck(s))
            /\ proc' = proc
       ELSE LET d == CheckOnRecord(Stored(s), excl, now)
            IN  CASE ~ok ->
                       /\ result' = CheckFailed(s, excl)
                       /\ proc' = proc
                  [] ok /\ d = "delete" ->
                       /\ proc' = Goto(p, "check", s, excl, NoCompany, "check_delete")
                       /\ result' = NoResult
                  [] ok /\ d = "available" ->
                       /\ result' = Answer(s, excl, TRUE, "none")
                       /\ proc' = proc
                  [] OTHER ->
                       /\ result' = Answer(s, excl, FALSE, d)
                       /\ proc' = proc
    /\ UNCHANGED <<now, subdomains, Registry>>

CheckBegin(p, s, excl) == \E ok \in BOOLEAN : CheckRead(p, s, excl, ok)

\* The lazy deletion; ok says whether the store is reachable.  The rules
\* decide whether a delete that reaches the store is applied.
CheckRemove(p, ok) ==
    /\ result = NoResult
    /\ UNCHANGED Offstage
    /\ proc[p].pc = "check_delete"
    /\ IF ok /\ AllowDelete(subdomains[proc[p].s], now)
       THEN /\ subdomains' = [subdomains EXCEPT ![proc[p].s] = NoRec]
            /\ result' = Answer(proc[p].s, proc[p].id, TRUE, "none")
       ELSE /\ result' = CheckFailed(proc[p].s, proc[p].id)
            /\ UNCHANGED subdomains
    /\ proc' = Ended(p)
    /\ UNCHANGED <<now, Registry>>

CheckDelete(p) == \E ok \in BOOLEAN : CheckRemove(p, ok)

\* ------------------------------------------------------ reserveSubdomain
\* The thrown error; names is the registration id its message carries.
Thrown(op, s, r, st, who) == Outcome(op, s, r, "error", FALSE, st, who, 0)

Returned(op, s, r, st) == Outcome(op, s, r, "ok", FALSE, st, NoId, 0)

\* Faulty variant: a record of another registration is written over instead
\* of raising the conflict.
ReserveOnRecord_NoConflict(rec, registrationId) ==
    IF Exists(rec) /\ rec.registrationId = registrationId THEN "touch" ELSE "create"

\* The branch taken on the record the read returned.
ReserveOnRecord(rec, registrationId) ==
    IF Exists(rec)
    THEN IF rec.registrationId = registrationId THEN "touch" ELSE "conflict"
    ELSE "create"

\* The reservation document; the key is the subdomain.
newReservation(registrationId, expires) ==
    [status |-> "pending", registrationId |-> registrationId, companyId |-> NoCompany,
     expiresAt |-> expires, createdAt |-> serverTimestamp,
     updatedAt |-> serverTimestamp]

\* The read that opens reserveSubdomain, called directly (op = "reserve") or
\* as the first step of saveAdminAccount.
ReserveRead(p, op, s, r) ==
    /\ result = NoResult
    /\ UNCHANGED Offstage
    /\ proc[p].pc = "idle"
    /\ \E ok \in BOOLEAN :
         LET branch == ReserveOnRecord(subdomains[s], r)
         IN  CASE ~ok ->
                    /\ result' = Thrown(op, s, r, "store", NoId)
                    /\ proc' = proc
               [] ok /\ branch = "touch" ->
                    /\ proc' = Goto(p, op, s, r, NoCompany, "reserve_touch")
                    /\ result' = NoResult
               [] ok /\ branch = "conflict" ->
                    /\ result' = Thrown(op, s, r, "conflict", subdomains[s].registrationId)
                    /\ proc' = proc
               [] OTHER ->
                    /\ proc' = [Goto(p, op, s, r, NoCompany, "reserve_create")
                                  EXCEPT ![p].exp = now + ReservationTTL]
                    /\ result' = NoResult
    /\ UNCHANGED <<now, subdomains, Registry>>

ReserveBegin(p, s, r) == ReserveRead(p, "reserve", s, r)

\* reserveSubdomain returns: a direct call ends, saveAdminAccount goes on.
AfterReserve(p, st) ==
    IF proc[p].op = "reserve"
    THEN /\ proc' = Ended(p)
         /\ result' = Returned("reserve", proc[p].s, proc[p].id, st)
    ELSE /\ proc' = [proc EXCEPT ![p].pc = "admin_update"]
         /\ result' = NoResult

\* Faulty variant: the repeated reservation is written anew, with a new
\* expiry.
Touched_Renewed(rec) ==
    [rec EXCEPT !.expiresAt = now + ReservationTTL, !.updatedAt = serverTimestamp]

\* The field the repeated reservation's updateDoc sets; the others stay.
Touched(rec) == [rec EXCEPT !.updatedAt = serverTimestamp]

\* updateDoc writes only to a document that exists.
ReserveTouch(p) ==
    /\ result = NoResult
    /\ UNCHANGED Offstage
    /\ proc[p].pc = "reserve_touch"
    /\ \E ok \in BOOLEAN :
         IF ok /\ Exists(subdomains[proc[p].s])
         THEN /\ subdomains' = [subdomains EXCEPT ![proc[p].s] = Touched(@)]
              /\ AfterReserve(p, "refreshed")
         ELSE /\ result' = Thrown(proc[p].op, proc[p].s, proc[p].id, "store", NoId)
              /\ proc' = Ended(p)
              /\ UNCHANGED subdomains
    /\ UNCHANGED <<now, Registry>>

\* setDoc replaces whatever document the key holds.
ReserveCreate(p) ==
    /\ result = NoResult
    /\ UNCHANGED Offstage
    /\ proc[p].pc = "reserve_create"
    /\ \E ok \in BOOLEAN :
         IF ok
         THEN /\ subdomains' = [subdomains EXCEPT
                                  ![proc[p].s] = newReservation(proc[p].id, proc[p].exp)]
              /\ AfterReserve(p, "created")
         ELSE /\ result' = Thrown(proc[p].op, proc[p].s, proc[p].id, "store", NoId)
              /\ proc' = Ended(p)
              /\ UNCHANGED subdomains
    /\ UNCHANGED <<now, Registry>>

\* ----------------------------------------------------- activateSubdomain
\* Whether activation goes on to its update after the read.
ActivateOnRecord(rec) == IF Exists(rec) THEN "update" ELSE "not_found"

\* The fields the update sets; the others stay.
Activated(rec, companyId) ==
    [rec EXCEPT !.companyId = companyId, !.status = "active", !.expiresAt = NoTime,
               !.updatedAt = serverTimestamp]

ActivateBegin(p, s, c) ==
    /\ result = NoResult
    /\ UNCHANGED Offstage
    /\ proc[p].pc = "idle"
    /\ \E ok \in BOOLEAN :
         IF ok /\ ActivateOnRecord(subdomains[s]) = "update"
         THEN /\ proc' = Goto(p, "activate", s, NoId, c, "activate_update")
              /\ result' = NoResult
         ELSE /\ result' = Thrown("activate", s, NoId, "failed", NoId)
              /\ proc' = proc
    /\ UNCHANGED <<now, subdomains, Registry>>

\* Faulty variant: the update is a setDoc with merge, which creates the
\* document when the key holds none.
ActivateWrite_Merge(rec, companyId) ==
    [status |-> "active",
     registrationId |-> IF Exists(rec) THEN rec.registrationId ELSE NoId,
     companyId |-> companyId,
     expiresAt |-> NoTime,
     createdAt |-> IF Exists(rec) THEN rec.createdAt ELSE NoTime,
     updatedAt |-> serverTimestamp]

\* What activateSubdomain's update leaves under the key: updateDoc writes
\* only to a document that exists.
ActivateWrite(rec, companyId) ==
    IF Exists(rec) THEN Activated(rec, companyId) ELSE rec

\* activateSubdomain returns: a direct call ends, createCompanyFromRegistration
\* goes on to mark its draft.
ActivateUpdate(p) ==
    /\ result = NoResult
    /\ UNCHANGED Offstage
    /\ proc[p].pc = "activate_update"
    /\ \E ok \in BOOLEAN :
         IF ~ok
         THEN /\ result' = Thrown(proc[p].op, proc[p].s, proc[p].id, "failed", NoId)
              /\ proc' = Ended(p)
              /\ UNCHANGED subdomains
         ELSE /\ subdomains' = [subdomains EXCEPT
                                  ![proc[p].s] = ActivateWrite(@, proc[p].cid)]
              /\ IF ~Exists(subdomains[proc[p].s])
                 THEN /\ result' = Thrown(proc[p].op, proc[p].s, proc[p].id, "failed", NoId)
                      /\ proc' = Ended(p)
                 ELSE IF proc[p].op = "activate"
                 THEN /\ result' = Returned("activate", proc[p].s, NoId, "activated")
                      /\ proc' = Ended(p)
                 ELSE /\ result' = NoResult
                      /\ proc' = [proc EXCEPT ![p].pc = "draft_mark"]
    /\ UNCHANGED <<now, Registry>>

\* -------------------------------------------- cleanupExpiredReservations
Counted(n) == Outcome("cleanup", NoSub, NoId, "ok", FALSE, "swept", NoId, n)

\* Faulty variant: the query leaves the expiry out.
expiredQuery_AnyPending(store, t) ==
    {s \in Subdomains :
       /\ Exists(store[s])
       /\ store[s].status = "pending"}

\* where status == pending and expiresAt < now
expiredQuery(store, t) ==
    {s \in Subdomains :
       /\ Exists(store[s])
       /\ store[s].status = "pending"
       /\ store[s].expiresAt # NoTime
       /\ store[s].expiresAt < t}

CleanupBegin(p) ==
    /\ result = NoResult
    /\ UNCHANGED Offstage
    /\ proc[p].pc = "idle"
    /\ \E ok \in BOOLEAN :
         LET snapshot == expiredQuery(subdomains, now)
         IN  IF ok /\ snapshot # {}
             THEN /\ proc' = [Goto(p, "cleanup", NoSub, NoId, NoCompany, "cleanup_commit")
                                EXCEPT ![p].batch = snapshot]
                  /\ result' = NoResult
             ELSE /\ result' = Counted(0)
                  /\ proc' = proc
    /\ UNCHANGED <<now, subdomains, Registry>>

\* batch.commit(): all deletes apply or none; each delete passes the rule.
\* ok says whether the store is reachable.
CleanupApply(p, ok) ==
    /\ result = NoResult
    /\ UNCHANGED Offstage
    /\ proc[p].pc = "cleanup_commit"
    /\ IF ok /\ \A s \in proc[p].batch : AllowDelete(subdomains[s], now)
       THEN /\ subdomains' = [s \in Subdomains |->
                                IF s \in proc[p].batch THEN NoRec ELSE subdomains[s]]
            /\ result' = Counted(Cardinality(proc[p].batch))
       ELSE /\ result' = Counted(0)
            /\ UNCHANGED subdomains
    /\ proc' = Ended(p)
    /\ UNCHANGED <<now, Registry>>

CleanupCommit(p) == \E ok \in BOOLEAN : CleanupApply(p, ok)

\* ------------------------------------------------------- saveCompanyInfo
\* setDoc(..., { merge: true }): the fields written replace the stored ones,
\* the other stored fields stay; a missing document is created from them.
CompanyInfoMerged(d, companyData, t) ==
    [status |-> "draft",
     companyInfo |-> companyData,
     adminAccount |-> IF Exists(d) THEN d.adminAccount ELSE NoSub,
     trialActivation |-> IF Exists(d) THEN d.trialActivation ELSE NoData,
     currentStep |-> 1,
     completedSteps |-> <<1>>,
     createdAt |-> t,
     expiresAt |-> t + DraftTTL,
     companyCreated |-> IF Exists(d) THEN d.companyCreated ELSE FALSE,
     companyId |-> IF Exists(d) THEN d.companyId ELSE NoCompany]

saveCompanyInfo(p, r, companyData) ==
    /\ result = NoResult
    /\ UNCHANGED Offstage
    /\ proc[p].pc = "idle"
    /\ \E ok \in BOOLEAN :
         IF ok
         THEN /\ drafts' = [drafts EXCEPT ![r] = CompanyInfoMerged(@, companyData, now)]
              /\ result' = Returned("saveCompanyInfo", NoSub, r, "saved")
         ELSE /\ result' = Thrown("saveCompanyInfo", NoSub, r, "store", NoId)
              /\ UNCHANGED drafts
    /\ UNCHANGED <<now, subdomains, companies, nextCompany, proc>>

\* ------------------------------------------------------ saveAdminAccount
\* Step 1 reserves the subdomain, step 2 updates the draft.
saveAdminAccount(p, r, s) == ReserveRead(p, "saveAdminAccount", s, r)

AdminSaved(d, s) ==
    [d EXCEPT !.adminAccount = s, !.currentStep = 2, !.completedSteps = <<1, 2>>]

AdminUpdate(p) ==
    /\ result = NoResult
    /\ UNCHANGED Offstage
    /\ proc[p].pc = "admin_update"
    /\ \E ok \in BOOLEAN :
         IF ok /\ Exists(drafts[proc[p].id])
         THEN /\ drafts' = [drafts EXCEPT ![proc[p].id] = AdminSaved(@, proc[p].s)]
              /\ result' = Returned("saveAdminAccount", proc[p].s, proc[p].id, "saved")
         ELSE /\ result' = Thrown("saveAdminAccount", proc[p].s, proc[p].id, "store", NoId)
              /\ UNCHANGED drafts
    /\ proc' = Ended(p)
    /\ UNCHANGED <<now, subdomains, companies, nextCompany>>

\* ----------------------------------------- activateTrialAndCreateCompany
TrialSaved(d, trialData) ==
    [d EXCEPT !.trialActivation = trialData, !.currentStep = 3,
              !.completedSteps = <<1, 2, 3>>]

activateTrialAndCreateCompany(p, r, trialData) ==
    /\ result = NoResult
    /\ UNCHANGED Offstage
    /\ proc[p].pc = "idle"
    /\ \E ok \in BOOLEAN :
         IF ok /\ Exists(drafts[r])
         THEN /\ drafts' = [drafts EXCEPT ![r] = TrialSaved(@, trialData)]
              /\ proc' = Goto(p, "activateTrial", NoSub, r, NoCompany, "company_read")
              /\ result' = NoResult
         ELSE /\ result' = Thrown("activateTrial", NoSub, r, "failed", NoId)
              /\ UNCHANGED <<drafts, proc>>
    /\ UNCHANGED <<now, subdomains, companies, nextCompany>>

\* ------------------------------------------ createCompanyFromRegistration
\* Faulty variant: the admin account is not asked for.
RegistrationComplete_CompanyInfoOnly(d) ==
    /\ Exists(d)
    /\ d.companyInfo # NoData

\* The draft read has what company creation needs.
RegistrationComplete(d) ==
    /\ Exists(d)
    /\ d.companyInfo # NoData
    /\ d.adminAccount # NoSub

\* The draft is read and, when complete, a company id is generated.  The
\* generator (timestamp plus random suffix) hands out an id not used before.
CompanyRead(p) ==
    /\ result = NoResult
    /\ UNCHANGED Offstage
    /\ proc[p].pc = "company_read"
    /\ nextCompany <= MaxCompanies
    /\ \E ok \in BOOLEAN :
         IF ok /\ RegistrationComplete(drafts[proc[p].id])
         THEN /\ proc' = [proc EXCEPT ![p].pc = "company_set",
                                      ![p].s = drafts[proc[p].id].adminAccount,
                                      ![p].cid = nextCompany]
              /\ nextCompany' = nextCompany + 1
              /\ result' = NoResult
         ELSE /\ result' = Thrown("activateTrial", NoSub, proc[p].id, "failed", NoId)
              /\ proc' = Ended(p)
              /\ UNCHANGED nextCompany
    /\ UNCHANGED <<now, subdomains, drafts, companies>>

companyDoc(s, r) == [status |-> "company", subdomain |-> s, from |-> r]

\* setDoc(companyRef, companyDoc).  Whether companies/{id} admits the write
\* is decided by rules over request.auth and the users collection, which lie
\* outside this model: the store accepts or rejects.
CompanySet(p) ==
    /\ result = NoResult
    /\ UNCHANGED Offstage
    /\ proc[p].pc = "company_set"
    /\ \E ok \in BOOLEAN :
         IF ok
         THEN /\ companies' = [companies EXCEPT
                                 ![proc[p].cid] = companyDoc(proc[p].s, proc[p].id)]
              /\ proc' = [proc EXCEPT ![p].pc = "activate_read"]
              /\ result' = NoResult
         ELSE /\ result' = Thrown("activateTrial", proc[p].s, proc[p].id, "failed", NoId)
              /\ proc' = Ended(p)
              /\ UNCHANGED companies
    /\ UNCHANGED <<now, subdomains, drafts, nextCompany>>

\* The read that opens activateSubdomain when createCompanyFromRegistration
\* calls it.
CompanyActivate(p) ==
    /\ result = NoResult
    /\ UNCHANGED Offstage
    /\ proc[p].pc = "activate_read"
    /\ \E ok \in BOOLEAN :
         IF ok /\ ActivateOnRecord(subdomains[proc[p].s]) = "update"
         THEN /\ proc' = [proc EXCEPT ![p].pc = "activate_update"]
              /\ result' = NoResult
         ELSE /\ result' = Thrown("activateTrial", proc[p].s, proc[p].id, "failed", NoId)
              /\ proc' = Ended(p)
    /\ UNCHANGED <<now, subdomains, Registry>>

Completed(d, companyId) ==
    [d EXCEPT !.companyCreated = TRUE, !.companyId = companyId]

DraftMark(p) ==
    /\ result = NoResult
    /\ UNCHANGED Offstage
    /\ proc[p].pc = "draft_mark"
    /\ \E ok \in BOOLEAN :
         IF ok /\ Exists(drafts[proc[p].id])
         THEN /\ drafts' = [drafts EXCEPT ![proc[p].id] = Completed(@, proc[p].cid)]
              /\ result' = Returned("activateTrial", proc[p].s, proc[p].id, "completed")
         ELSE /\ result' = Thrown("activateTrial", proc[p].s, proc[p].id, "failed", NoId)
              /\ UNCHANGED drafts
    /\ proc' = Ended(p)
    /\ UNCHANGED <<now, subdomains, companies, nextCompany>>

\* ------------------------------- checkSubdomainAvailability, boolean version
\* The version of the service that keeps no subdomains collection: it answers
\* a boolean from the companies and the draft registrations.
reservedSubdomainsBool ==
    { <<"w", "w", "w">>,
      <<"a", "p", "i">>,
      <<"a", "d", "m", "i", "n">>,
      <<"s", "u", "p", "p", "o", "r", "t">>,
      <<"h", "e", "l", "p">>,
      <<"m", "a", "i", "l">>,
      <<"e", "m", "a", "i", "l">>,
      <<"f", "t", "p">>,
      <<"s", "s", "h">>,
      <<"s", "e", "c", "u", "r", "e">>,
      <<"s", "s", "l">>,
      <<"a", "p", "p">>,
      <<"m", "o", "b", "i", "l", "e">>,
      <<"d", "e", "v">>,
      <<"t", "e", "s", "t">>,
      <<"s", "t", "a", "g", "i", "n", "g">>,
      <<"p", "r", "o", "d", "u", "c", "t", "i", "o", "n">>,
      <<"s", "a", "h", "o", "d">>,
      <<"p", "a", "y", "r", "o", "l", "l">>,
      <<"h", "r", "m", "s">>,
      <<"h", "r", "i", "s">>,
      <<"d", "a", "s", "h", "b", "o", "a", "r", "d">>,
      <<"p", "o", "r", "t", "a", "l">>,
      <<"l", "o", "g", "i", "n">>,
      <<"r", "e", "g", "i", "s", "t", "e", "r">>,
      <<"s", "i", "g", "n", "u", "p">>,
      <<"s", "i", "g", "n", "i", "n">>,
      <<"a", "u", "t", "h">>,
      <<"o", "a", "u", "t", "h">>,
      <<"s", "s", "o">>,
      <<"a", "c", "c", "o", "u", "n", "t">>,
      <<"b", "i", "l", "l", "i", "n", "g">>,
      <<"p", "a", "y", "m", "e", "n", "t">>,
      <<"i", "n", "v", "o", "i", "c", "e">>,
      <<"r", "e", "c", "e", "i", "p", "t">>,
      <<"f", "i", "n", "a", "n", "c", "e">>,
      <<"a", "c", "c", "o", "u", "n", "t", "i", "n", "g">> }

BoolAnswer(s, excl, avail) == Outcome("checkBool", s, excl, "ok", avail, "none", NoId, 0)

\* What the catch block returns when a query throws.
BoolFailed(s, excl) == BoolAnswer(s, excl, FALSE)

\* where subdomain == s, limit 1
companiesQuery(s) ==
    {c \in CompanyIds : Exists(companies[c]) /\ companies[c].subdomain = s}

\* where adminAccount.subdomain == s, then the filter that skips the current
\* registration and the expired ones.
conflictingRegistrations(s, excl, t) ==
    {r \in RegIds :
       /\ Exists(drafts[r])
       /\ drafts[r].adminAccount = s
       /\ ~(excl # NoId /\ r = excl)
       /\ ~(drafts[r].expiresAt # NoTime /\ drafts[r].expiresAt < t)}

\* The reserved-word test and the companies query; ok says whether the
\* store answers the query.
BoolCheckCompanies(p, s, excl, ok) ==
    /\ result = NoResult
    /\ UNCHANGED Offstage
    /\ proc[p].pc = "idle"
    /\ IF toLowerCase(s) \in reservedSubdomainsBool
       THEN /\ result' = BoolAnswer(s, excl, FALSE)
            /\ proc' = proc
       ELSE IF ~ok
       THEN /\ result' = BoolFailed(s, excl)
            /\ proc' = proc
       ELSE IF companiesQuery(s) # {}
       THEN /\ result' = BoolAnswer(s, excl, FALSE)
            /\ proc' = proc
       ELSE /\ proc' = Goto(p, "checkBool", s, excl, NoCompany, "bool_drafts")
            /\ result' = NoResult
    /\ UNCHANGED <<now, subdomains, Registry>>

BoolCheckBegin(p, s, excl) == \E ok \in BOOLEAN : BoolCheckCompanies(p, s, excl, ok)

\* The draft registrations query and the answer.
BoolCheckDrafts(p, ok) ==
    /\ result = NoResult
    /\ UNCHANGED Offstage
    /\ proc[p].pc = "bool_drafts"
    /\ result' = IF ok
                 THEN BoolAnswer(proc[p].s, proc[p].id,
                                 conflictingRegistrations(proc[p].s, proc[p].id, now) = {})
                 ELSE BoolFailed(proc[p].s, proc[p].id)
    /\ proc' = Ended(p)
    /\ UNCHANGED <<now, subdomains, Registry>>

BoolCheckFinish(p) == \E ok \in BOOLEAN : BoolCheckDrafts(p, ok)

\* ------------------------------------------------------------ environment
Tick ==
    /\ result = NoResult
    /\ UNCHANGED Offstage
    /\ now < MaxClock
    /\ now' = now + 1
    /\ UNCHANGED <<subdomains, proc, Registry, result>>

\* The caller takes what its call returned or threw; the next step of any
\* client follows that.
Return ==
    /\ result # NoResult
    /\ result' = NoResult
    /\ UNCHANGED Offstage
    /\ UNCHANGED <<now, subdomains, proc, Registry>>

Next ==
    \/ Return
    \/ Tick
    \/ \E p \in Clients :
         \/ \E s \in CheckedNames, excl \in RegIds \cup {NoId} : CheckBegin(p, s, excl)
         \/ CheckDelete(p)
         \/ \E s \in Subdomains, r \in RegIds : ReserveBegin(p, s, r)
         \/ ReserveTouch(p)
         \/ ReserveCreate(p)
         \/ \E s \in Subdomains, c \in CompanyIds : ActivateBegin(p, s, c)
         \/ ActivateUpdate(p)
         \/ CleanupBegin(p)
         \/ CleanupCommit(p)

Spec == Init /\ [][Next]_vars

\* The registration wizard: drafts are saved step by step and completed, while
\* availability checks (with their lazy deletion) and the clock run alongside.
FlowNext ==
    \/ Return
    \/ Tick
    \/ \E p \in FlowClients :
         \/ \E s \in FlowChecked, excl \in RegIds \cup {NoId} : CheckBegin(p, s, excl)
         \/ CheckDelete(p)
         \/ \E r \in RegIds, d \in Payloads : saveCompanyInfo(p, r, d)
         \/ \E r \in RegIds, s \in FlowNames : saveAdminAccount(p, r, s)
         \/ ReserveTouch(p)
         \/ ReserveCreate(p)
         \/ AdminUpdate(p)
         \/ \E r \in RegIds, d \in Payloads : activateTrialAndCreateCompany(p, r, d)
         \/ CompanyRead(p)
         \/ CompanySet(p)
         \/ CompanyActivate(p)
         \/ ActivateUpdate(p)
         \/ DraftMark(p)
         \/ \E s \in FlowChecked, excl \in RegIds \cup {NoId} : BoolCheckBegin(p, s, excl)
         \/ BoolCheckFinish(p)

FlowSpec == Init /\ [][FlowNext]_vars

\* The subdomain registry of one name with the metadata timestamps followed:
\* reservations, repeated reservations, activation and availability checks by
\* both clients.
StampNames == {Acme}

StampNext ==
    \/ Return
    \/ Tick
    \/ \E p \in Clients :
         \/ \E s \in StampNames, excl \in RegIds \cup {NoId} : CheckBegin(p, s, excl)
         \/ CheckDelete(p)
         \/ \E s \in StampNames, r \in RegIds : ReserveBegin(p, s, r)
         \/ ReserveTouch(p)
         \/ ReserveCreate(p)
         \/ \E s \in StampNames, c \in CompanyIds : ActivateBegin(p, s, c)
         \/ ActivateUpdate(p)

StampSpec == InitStamped /\ [][StampNext]_vars

\* ------------------------------------------------------- createAutoSaver
\* The closure createAutoSaver returns, with its timeoutId.  Two forms exist:
\* the closure is called with the data and the timer callback passes them to
\* the save function (reads = "held"), or the closure takes no argument and
\* the timer callback asks getData() for the data and skips the save when it
\* gets none (reads = "getData").
\*   clock   the time of the page
\*   timer   when the pending timer is due, NoTime without one
\*   held    the data the pending callback closed over
\*   form    what getData() returns
\*   called  the time of the last call
\*   asked   the data of the last call
\*   calls   the calls of the burst so far: those less than the delay apart
\*   ran     how often the save ran since the last call
\*   passed  the data the last save was given
\*   failed  how often a save threw since the last call
\*   thrown  whether an error left the timer callback
Delay == 2
MaxSaverClock == 4
MaxBurst == 3
FormData == {"v1", "v2"}

NewSaver(reads) ==
    [reads |-> reads, clock |-> 0, timer |-> NoTime, held |-> NoData,
     form |-> NoData, called |-> NoTime, asked |-> NoData, calls |-> 0, ran |-> 0,
     passed |-> NoData, failed |-> 0, thrown |-> FALSE]

SaverInit ==
    /\ Blank
    /\ stamped = FALSE
    /\ saver \in {NewSaver("held"), NewSaver("getData")}
    /\ sweep = NoSweep

Backstage ==
    <<now, subdomains, drafts, companies, nextCompany, proc, result, stamped, sweep>>

\* Faulty variant: a pending timer is left to run (a throttle).
Rearmed_Throttle(sv, d) ==
    [sv EXCEPT !.timer = IF sv.timer = NoTime THEN sv.clock + Delay ELSE sv.timer,
               !.held = IF sv.reads = "held" THEN d ELSE NoData,
               !.called = sv.clock,
               !.asked = d,
               !.calls = IF sv.called # NoTime /\ sv.clock - sv.called < Delay
                         THEN sv.calls + 1 ELSE 1,
               !.ran = 0,
               !.failed = 0]

\* clearTimeout(timeoutId); timeoutId = setTimeout(callback, delay).
Rearmed(sv, d) ==
    [sv EXCEPT !.timer = sv.clock + Delay,
               !.held = IF sv.reads = "held" THEN d ELSE NoData,
               !.called = sv.clock,
               !.asked = d,
               !.calls = IF sv.called # NoTime /\ sv.clock - sv.called < Delay
                         THEN sv.calls + 1 ELSE 1,
               !.ran = 0,
               !.failed = 0]

\* The closure is called; in the getData form the form holds d by then.
SaverCall(d) ==
    /\ saver.calls < MaxBurst \/ saver.clock - saver.called >= Delay
    /\ saver' = [Rearmed(saver, d) EXCEPT
                   !.form = IF saver.reads = "getData" THEN d ELSE saver.form]
    /\ UNCHANGED Backstage

\* The user edits the form, or empties it, without the closure being called.
SaverEdit(d) ==
    /\ saver.reads = "getData"
    /\ saver.form # d
    /\ saver' = [saver EXCEPT !.form = d]
    /\ UNCHANGED Backstage

\* The timer callback: the save is awaited inside try, the catch logs.
Saved(sv, data, ok) ==
    IF data = NoData /\ sv.reads = "getData"
    THEN [sv EXCEPT !.timer = NoTime]
    ELSE [sv EXCEPT !.timer = NoTime,
                    !.ran = sv.ran + 1,
                    !.passed = data,
                    !.failed = IF ok THEN sv.failed ELSE sv.failed + 1]

\* The timer is due and its callback runs; a timer may run late.
SaverFire ==
    /\ saver.timer # NoTime
    /\ saver.clock >= saver.timer
    /\ \E ok \in BOOLEAN :
         saver' = Saved(saver, IF saver.reads = "held" THEN saver.held ELSE saver.form, ok)
    /\ UNCHANGED Backstage

SaverTick ==
    /\ saver.clock < MaxSaverClock
    /\ saver' = [saver EXCEPT !.clock = saver.clock + 1]
    /\ UNCHANGED Backstage

SaverNext ==
    \/ \E d \in FormData : SaverCall(d)
    \/ \E d \in FormData \cup {NoData} : SaverEdit(d)
    \/ SaverFire
    \/ SaverTick

SaverSpec == SaverInit /\ [][SaverNext]_vars

\* ------------------------------------------------- sweeps in write batches
\* One sweep over a collection holding many expired documents, followed by
\* the number of documents only: the sweep of the subdomains
\* (cleanupExpiredReservations) or of the draft registrations
\* (cleanupExpiredRegistrations).
\*   pc        idle, fill (the loop over snapshot.docs), commit, done
\*   found     snapshot.size
\*   seen      the documents the loop has handled
\*   current   the deletes in the batch being filled (operationCount)
\*   batches   the sizes of the batches set aside for commit, in order
\*   cleaned   the count returned
BatchLimit == 500
MaxExpired == 1001
Collections == {"subdomains", "draft_registrations"}

\* How many expired documents the query may find.
SnapshotSizes ==
    {0, 1, BatchLimit - 1, BatchLimit, BatchLimit + 1, 2 * BatchLimit, MaxExpired}

NewSweep(c) ==
    [of |-> c, pc |-> "idle", found |-> 0, seen |-> 0, current |-> 0,
     batches |-> <<>>, cleaned |-> 0]

SweepInit ==
    /\ Blank
    /\ stamped = FALSE
    /\ saver = NoSaver
    /\ sweep \in {NewSweep(c) : c \in Collections}

Wings == <<now, subdomains, drafts, companies, nextCompany, proc, result, stamped, saver>>

\* getDocs(expiredQuery); an empty snapshot, or a query that throws, ends
\* the run with 0.
SweepQuery(n) ==
    /\ sweep.pc = "idle"
    /\ \E ok \in BOOLEAN :
         sweep' = IF ok /\ n > 0
                  THEN [NewSweep(sweep.of) EXCEPT !.pc = "fill", !.found = n]
                  ELSE [NewSweep(sweep.of) EXCEPT !.pc = "done"]
    /\ UNCHANGED Wings

\* One turn of the loop: batch.delete(doc.ref).  The sweep of the drafts
\* sets the batch aside and opens a new one when it holds 500 deletes; the
\* sweep of the subdomains has one batch.
Added(sw) ==
    IF sw.of = "draft_registrations" /\ sw.current + 1 = BatchLimit
    THEN [sw EXCEPT !.seen = sw.seen + 1, !.current = 0,
                    !.batches = Append(sw.batches, sw.current + 1)]
    ELSE [sw EXCEPT !.seen = sw.seen + 1, !.current = sw.current + 1]

SweepAdd ==
    /\ sweep.pc = "fill"
    /\ sweep.seen < sweep.found
    /\ sweep' = Added(sweep)
    /\ UNCHANGED Wings

\* After the loop: the drafts' sweep adds the last batch if it holds
\* deletes; the subdomains' sweep goes to commit its one batch.
SweepClose ==
    /\ sweep.pc = "fill"
    /\ sweep.seen = sweep.found
    /\ sweep' = [sweep EXCEPT
                   !.pc = "commit",
                   !.current = 0,
                   !.batches = IF sweep.current > 0 \/ sweep.of = "subdomains"
                               THEN Append(sweep.batches, sweep.current)
                               ELSE sweep.batches]
    /\ UNCHANGED Wings

\* batch.commit() of every batch set aside; a failure is caught: the
\* subdomains' sweep returns 0, the drafts' sweep returns cleaned = 0 with
\* the error.
SweepCommit ==
    /\ sweep.pc = "commit"
    /\ \E ok \in BOOLEAN :
         sweep' = [sweep EXCEPT !.pc = "done",
                                !.cleaned = IF ok THEN sweep.found ELSE 0]
    /\ UNCHANGED Wings

\* The sweep is run again.
SweepAgain ==
    /\ sweep.pc = "done"
    /\ sweep' = NewSweep(sweep.of)
    /\ UNCHANGED Wings

SweepNext ==
    \/ \E n \in SnapshotSizes : SweepQuery(n)
    \/ SweepAdd
    \/ SweepClose
    \/ SweepCommit
    \/ SweepAgain

SweepSpec == SweepInit /\ [][SweepNext]_vars

\* ------------------------------------------------ fetchCompanyBySubdomain
\* Tenant resolution (hooks/useTenant.ts): the subdomain record is read, then
\* the company it names.
NoTenant(s) == Outcome("fetchCompany", s, NoId, "ok", FALSE, "null", NoId, 0)

Tenant(s, companyId) ==
    Outcome("fetchCompany", s, NoId, "ok", TRUE, "company", NoId, companyId)

\* The test on the subdomain document.
TenantOnRecord(rec) ==
    IF ~Exists(rec) \/ rec.status # "active" THEN "null"
    ELSE IF rec.companyId = NoCompany THEN "null"
    ELSE "company"

\* Faulty variant: the company document is not asked for.
TenantOnCompany_Unchecked(docu) == "company"

\* The test on the company document.
TenantOnCompany(docu) == IF Exists(docu) THEN "company" ELSE "null"

\* getDoc(doc(db, 'subdomains', subdomain)); ok says whether the store
\* answers.  The catch returns null.
TenantRead(p, s, ok) ==
    /\ result = NoResult
    /\ UNCHANGED Offstage
    /\ proc[p].pc = "idle"
    /\ IF ok /\ TenantOnRecord(subdomains[s]) = "company"
       THEN /\ proc' = Goto(p, "fetchCompany", s, NoId, subdomains[s].companyId,
                            "tenant_company")
            /\ result' = NoResult
       ELSE /\ result' = NoTenant(s)
            /\ proc' = proc
    /\ UNCHANGED <<now, subdomains, Registry>>

fetchCompanyBySubdomain(p, s) == \E ok \in BOOLEAN : TenantRead(p, s, ok)

\* getDoc(doc(db, 'companies', companyId)).
TenantCompany(p, ok) ==
    /\ result = NoResult
    /\ UNCHANGED Offstage
    /\ proc[p].pc = "tenant_company"
    /\ result' = IF ok /\ TenantOnCompany(companies[proc[p].cid]) = "company"
                 THEN Tenant(proc[p].s, proc[p].cid)
                 ELSE NoTenant(proc[p].s)
    /\ proc' = Ended(p)
    /\ UNCHANGED <<now, subdomains, Registry>>

TenantFinish(p) == \E ok \in BOOLEAN : TenantCompany(p, ok)

\* Tenants resolved while registrations are saved and completed and
\* subdomains are activated.
TenantNext ==
    \/ Return
    \/ Tick
    \/ \E p \in FlowClients :
         \/ \E r \in RegIds, d \in Payloads : saveCompanyInfo(p, r, d)
         \/ \E r \in RegIds, s \in FlowNames : saveAdminAccount(p, r, s)
         \/ ReserveTouch(p)
         \/ ReserveCreate(p)
         \/ AdminUpdate(p)
         \/ \E r \in RegIds, d \in Payloads : activateTrialAndCreateCompany(p, r, d)
         \/ CompanyRead(p)
         \/ CompanySet(p)
         \/ CompanyActivate(p)
         \/ \E s \in FlowNames, c \in CompanyIds : ActivateBegin(p, s, c)
         \/ ActivateUpdate(p)
         \/ DraftMark(p)
         \/ \E s \in FlowNames : fetchCompanyBySubdomain(p, s)
         \/ TenantFinish(p)

TenantSpec == Init /\ [][TenantNext]_vars

\* Step 2 of the wizard saved again and again, with either name, beside
\* step 1 and the clock.
AdminNext ==
    \/ Return
    \/ Tick
    \/ \E p \in FlowClients :
         \/ \E r \in RegIds, d \in Payloads : saveCompanyInfo(p, r, d)
         \/ \E r \in RegIds, s \in Subdomains : saveAdminAccount(p, r, s)
         \/ ReserveTouch(p)
         \/ ReserveCreate(p)
         \/ AdminUpdate(p)

AdminSpec == Init /\ [][AdminNext]_vars

\* ================================================================ claims
\* A pending reservation of another registration than r, not yet expired.
HeldByOther(rec, r, t) ==
    /\ Exists(rec)
    /\ rec.status = "pending"
    /\ rec.registrationId # r
    /\ rec.expiresAt >= t

\* A pending reservation whose expiresAt has passed.
Lapsed(rec, t) ==
    /\ Exists(rec)
    /\ rec.status = "pending"
    /\ rec.expiresAt # NoTime
    /\ rec.expiresAt < t

IsActive(rec) == Exists(rec) /\ rec.status = "active"

\* A name of at least three characters that is no reserved word.
WellFormed(s) ==
    /\ Len(s) >= MinSubdomainLength
    /\ toLowerCase(s) \notin reservedSubdomains

\* C1: of two overlapping reserveSubdomain calls for different registrations on
\* a key with no record at most one returns successfully: a call that read
\* "not found" never returns success over a record that another registration's
\* call has written to the key in the meantime (stated for well-formed names).
C1_NoDoubleReservation ==
    [][\A p \in Clients :
         (ReserveCreate(p) /\ result'.kind = "ok" /\ WellFormed(proc[p].s))
            => ~(/\ Exists(subdomains[proc[p].s])
                 /\ subdomains[proc[p].s].registrationId # proc[p].id)]_vars

\* C2: reserveSubdomain(s, r2) on an unexpired pending reservation of another
\* registration r1 fails, its error names r1 (unless the read itself failed),
\* and the record is left as it was.
C2_ConflictNamesOwner ==
    [][\A p \in Clients, s \in Subdomains, r \in RegIds :
         (ReserveBegin(p, s, r) /\ HeldByOther(subdomains[s], r, now))
            => /\ result'.op = "reserve"
               /\ result'.kind = "error"
               /\ result'.status # "store"
                    => /\ result'.status = "conflict"
                       /\ result'.names = subdomains[s].registrationId
               /\ proc'[p].pc = "idle"
               /\ subdomains' = subdomains]_vars

C2_Witness ==
    /\ result.op = "reserve"
    /\ result.status = "conflict"
    /\ result.names = "r1"
    /\ result.id = "r2"
    /\ HeldByOther(subdomains[result.s], "r2", now)
    /\ subdomains[result.s].registrationId = "r1"

C4_SelfCheckAvailable_AnyName ==
    [][\A p \in Clients, s \in Subdomains, r \in RegIds :
         (/\ CheckBegin(p, s, r)
          /\ Exists(subdomains[s])
          /\ subdomains[s].registrationId = r)
            => /\ result'.op = "check"
               /\ result'.status # "error" => result'.available = TRUE
               /\ subdomains' = subdomains]_vars

\* C4 amended: for s of at least three characters that is no reserved word,
\* once s is reserved by r1, checkSubdomainAvailability(s, r1) answers
\* available = true (unless the read fails), at once, and changes no record.
C4_SelfCheckAvailable ==
    [][\A p \in Clients, s \in Subdomains, r \in RegIds :
         (/\ CheckBegin(p, s, r)
          /\ WellFormed(s)
          /\ Exists(subdomains[s])
          /\ subdomains[s].registrationId = r)
            => /\ result'.op = "check"
               /\ result'.status # "error" => result'.available = TRUE
               /\ proc'[p].pc = "idle"
               /\ subdomains' = subdomains]_vars

C4_Witness ==
    /\ result.op = "check"
    /\ result.available = TRUE
    /\ result.s = Acme
    /\ result.id = "r1"
    /\ Exists(subdomains[Acme])
    /\ subdomains[Acme].status = "pending"
    /\ subdomains[Acme].registrationId = "r1"

\* What C5 says of the steps taken on the names in the set names: a check
\* (without exclusion id, or with another id than the owner's) that reads an
\* expired pending reservation goes on to delete it, and the delete removes
\* the record and answers available = true, unless the store rejects the read
\* or the delete (then the answer is available = false, status "error", and
\* the record stays); a check that reads no record answers available = true
\* and creates none; a reserveSubdomain that reads no record raises no
\* conflict, goes on to its write, and the write that succeeds leaves the
\* record pending and owned by the caller's registration.
ExpiredIsReclaimedOn(names) ==
    \A p \in Clients :
      /\ \A s \in names, excl \in RegIds \cup {NoId} :
           CheckBegin(p, s, excl)
              => /\ (/\ Lapsed(subdomains[s], now)
                     /\ subdomains[s].registrationId # excl
                     /\ result'.status # "error")
                       => /\ proc'[p].pc = "check_delete"
                          /\ proc'[p].s = s
                 /\ (~Exists(subdomains[s]) /\ result'.status # "error")
                       => /\ result'.available = TRUE
                          /\ subdomains' = subdomains
      /\ (/\ CheckDelete(p)
          /\ proc[p].s \in names
          /\ Lapsed(subdomains[proc[p].s], now))
            => \/ /\ result'.available = TRUE
                  /\ ~Exists(subdomains'[proc[p].s])
               \/ /\ result'.available = FALSE
                  /\ result'.status = "error"
                  /\ subdomains' = subdomains
      /\ \A s \in names, r \in RegIds :
           (ReserveBegin(p, s, r) /\ ~Exists(subdomains[s]))
              => /\ result'.status # "conflict"
                 /\ result'.kind # "error" => proc'[p].pc = "reserve_create"
      /\ (/\ ReserveCreate(p)
          /\ proc[p].s \in names
          /\ result'.kind = "ok")
            => subdomains'[proc[p].s] = newReservation(proc[p].id, proc[p].exp)

\* C5 as stated, for every name: an expired pending reservation is deleted by
\* the next check, which answers available = true; a check on no record
\* answers available = true; a reservation by another registration then
\* raises no conflict.
C5_ExpiredIsReclaimed_AnyName == [][ExpiredIsReclaimedOn(Subdomains)]_vars

\* C5 amended: the same for names of at least three characters that are no
\* reserved word, the delete being subject to the store accepting it.
C5_ExpiredIsReclaimed ==
    [][ExpiredIsReclaimedOn({s \in Subdomains : WellFormed(s)})]_vars

C5_Witness ==
    \E p \in Clients :
      /\ proc[p].pc = "check_delete"
      /\ proc[p].s = Acme
      /\ proc[p].id = NoId
      /\ Lapsed(subdomains[Acme], now)

\* C6: reserveSubdomain(s, r2) called on a pending record of another
\* registration r1 whose expiresAt has passed raises no conflict (it goes on to
\* write a reservation owned by r2).  Stated for names of at least three
\* characters that are no reserved word.
C6_ExpiredReservationReclaimable ==
    [][\A p \in Clients, s \in Subdomains, r \in RegIds :
         (/\ ReserveBegin(p, s, r)
          /\ WellFormed(s)
          /\ Lapsed(subdomains[s], now)
          /\ subdomains[s].registrationId # r)
            => /\ result'.status # "conflict"
               /\ result'.kind # "error" => proc'[p].pc = "reserve_create"]_vars

\* C7: a successful activateSubdomain(s, companyId) leaves the record active,
\* with that companyId and no expiresAt; from then on the record stays active
\* and every check without exclusion id answers available = false, status
\* "taken" (unless its read fails).  Stated for names of at least three
\* characters that are no reserved word.
C7_ActiveStaysTaken ==
    [][\A p \in Clients :
         /\ (/\ ActivateUpdate(p)
             /\ WellFormed(proc[p].s)
             /\ result'.status = "activated")
               => subdomains'[proc[p].s] =
                     [status |-> "active",
                      registrationId |-> subdomains[proc[p].s].registrationId,
                      companyId |-> proc[p].cid,
                      expiresAt |-> NoTime,
                      createdAt |-> subdomains[proc[p].s].createdAt,
                      updatedAt |-> serverTimestamp]
         /\ \A s \in Subdomains :
              (WellFormed(s) /\ IsActive(subdomains[s]))
                 => /\ IsActive(subdomains'[s])
                    /\ CheckBegin(p, s, NoId)
                         => /\ result'.available = FALSE
                            /\ result'.status \in {"taken", "error"}
                            /\ subdomains' = subdomains]_vars

\* C8: activateSubdomain(s, companyId) on a key with no record fails with an
\* error and leaves the store as it was, whether the record is missing at the
\* call's read or has gone by the time of its update.
C8_ActivateMissingFails ==
    [][\A p \in Clients :
         /\ \A s \in Subdomains, c \in CompanyIds :
              (ActivateBegin(p, s, c) /\ ~Exists(subdomains[s]))
                 => /\ result'.op = "activate"
                    /\ result'.kind = "error"
                    /\ proc'[p].pc = "idle"
                    /\ subdomains' = subdomains
         /\ (/\ ActivateUpdate(p)
             /\ proc[p].op = "activate"
             /\ ~Exists(subdomains[proc[p].s]))
               => /\ result'.op = "activate"
                  /\ result'.kind = "error"
                  /\ proc'[p].pc = "idle"
                  /\ subdomains' = subdomains]_vars

C8_Witness ==
    /\ result.op = "activate"
    /\ result.kind = "error"
    /\ result.s = Acme
    /\ ~Exists(subdomains[Acme])
    /\ \A p \in Clients : proc[p].pc = "idle"

\* The status a key shows: "absent" when it holds no record.
StatusOf(rec) == rec.status

\* C9: a record moves only (none) -> pending -> active or pending -> (none):
\* no step of any call takes an active record away or changes its status.
\* Stated for names of at least three characters that are no reserved word.
C9_ActiveIsTerminal ==
    [][\A s \in {n \in Subdomains : WellFormed(n)} :
         /\ IsActive(subdomains[s]) => IsActive(subdomains'[s])
         /\ <<StatusOf(subdomains[s]), StatusOf(subdomains'[s])>> \in
               { <<"absent", "absent">>, <<"absent", "pending">>,
                 <<"pending", "pending">>, <<"pending", "active">>,
                 <<"pending", "absent">>, <<"active", "active">> }]_vars

\* The companies created with subdomain s.
CompaniesOf(s) ==
    {c \in CompanyIds : Exists(companies[c]) /\ companies[c].subdomain = s}

\* C10: once the record of s is active with companyId c no step changes that
\* companyId, and at most one company record is ever created with subdomain s.
C10_CompanyOwnsSubdomain ==
    [][\A s \in Subdomains :
         /\ IsActive(subdomains[s])
               => /\ IsActive(subdomains'[s])
                  /\ subdomains'[s].companyId = subdomains[s].companyId
         /\ Cardinality(CompaniesOf(s)') <= 1]_vars

\* C11: checkSubdomainAvailability fails closed.  A call whose read of the
\* store throws, or whose lazy delete throws or is denied, answers
\* available = false (with status "error" in the version over the subdomains
\* collection) and changes no record; so does the boolean version when either
\* of its queries throws.
C11_CheckFailsClosed ==
    [][\A p \in Clients :
         /\ \A s \in CheckedNames, excl \in RegIds \cup {NoId} :
              (/\ result'.s = s
               /\ result'.id = excl
               /\ CheckRead(p, s, excl, FALSE))
                 => /\ result'.op = "check"
                    /\ result'.available = FALSE
                    /\ PreCheck(s) = "lookup" => result'.status = "error"
                    /\ proc' = proc
                    /\ subdomains' = subdomains
         /\ (CheckRemove(p, FALSE)
               \/ (CheckDelete(p) /\ ~AllowDelete(subdomains[proc[p].s], now)))
               => /\ result'.op = "check"
                  /\ result'.available = FALSE
                  /\ result'.status = "error"
                  /\ subdomains' = subdomains
         /\ \A s \in FlowChecked, excl \in RegIds \cup {NoId} :
              (/\ result'.s = s
               /\ result'.id = excl
               /\ BoolCheckCompanies(p, s, excl, FALSE))
                 => /\ result'.op = "checkBool"
                    /\ result'.available = FALSE
                    /\ proc' = proc
         /\ BoolCheckDrafts(p, FALSE)
               => /\ result'.op = "checkBool"
                  /\ result'.available = FALSE]_vars

\* A read that failed on a key with no record: the answer is "error", not
\* available.
C11_Witness ==
    /\ result.op = "check"
    /\ result.s = Acme
    /\ result.status = "error"
    /\ result.available = FALSE
    /\ ~Exists(subdomains[Acme])
    /\ \A p \in Clients : proc[p].pc = "idle"

\* The names a check is asked about that are shorter than three characters.
ShortNames == {s \in CheckedNames : Len(s) < 3}

\* C12: for every name shorter than three characters, the empty one
\* included, checkSubdomainAvailability answers available = false, status
\* "too_short", whatever the records and the exclusion id, and without a
\* store access: the answer is the same whether or not the store would have
\* answered, the call ends at once and no record changes.
C12_TooShort ==
    [][\A p \in Clients, s \in ShortNames, excl \in RegIds \cup {NoId},
          ok \in BOOLEAN :
         (/\ result'.s = s
          /\ result'.id = excl
          /\ CheckRead(p, s, excl, ok))
            => /\ result' = Answer(s, excl, FALSE, "too_short")
               /\ proc' = proc
               /\ subdomains' = subdomains]_vars

\* The empty name checked with the id of a registration that holds a record.
C12_Witness ==
    /\ result.op = "check"
    /\ result.s = Empty
    /\ result.status = "too_short"
    /\ result.id = "r1"
    /\ Exists(subdomains[Acme])
    /\ subdomains[Acme].registrationId = "r1"

\* The names a check is asked about whose lowercase form is a reserved word,
\* by the list of either version.
ReservedNames ==
    {s \in CheckedNames \cup FlowChecked : toLowerCase(s) \in reservedSubdomains}

ReservedNamesBool ==
    {s \in CheckedNames \cup FlowChecked : toLowerCase(s) \in reservedSubdomainsBool}

\* C13: for every name whose lowercase form is a reserved word,
\* checkSubdomainAvailability answers available = false, with status
\* "reserved" in the version over the subdomains collection, whatever the
\* store holds and whatever the exclusion id, and without a store access: the
\* answer is the same whether or not the store would have answered, and the
\* call ends at once.
C13_ReservedWord ==
    [][\A p \in Clients, excl \in RegIds \cup {NoId}, ok \in BOOLEAN :
         /\ \A s \in ReservedNames :
              (/\ result'.s = s
               /\ result'.id = excl
               /\ CheckRead(p, s, excl, ok))
               => /\ result' = Answer(s, excl, FALSE, "reserved")
                  /\ proc' = proc
                  /\ subdomains' = subdomains
         /\ \A s \in ReservedNamesBool :
              (/\ result'.s = s
               /\ result'.id = excl
               /\ BoolCheckCompanies(p, s, excl, ok))
               => /\ result' = BoolAnswer(s, excl, FALSE)
                  /\ proc' = proc]_vars

\* A reserved word typed in mixed case, checked with the id of a registration
\* that holds a reservation.
C13_Witness ==
    /\ result.op = "check"
    /\ result.s = WwwUpper
    /\ result.status = "reserved"
    /\ result.available = FALSE
    /\ result.id = "r1"
    /\ Exists(subdomains[Acme])
    /\ subdomains[Acme].registrationId = "r1"

\* C14: reserveSubdomain(s, r) that finds the record of s owned by r neither
\* refuses nor creates: it goes on to its updateDoc and writes nothing before
\* it; and when that updateDoc is applied to a record r still owns, the call
\* returns normally and the record differs from the one before in updatedAt
\* only: status, companyId, registrationId, createdAt and expiresAt are the
\* same, so the expiry is not extended.
C14_ReserveIdempotent ==
    [][\A p \in Clients :
         /\ \A s \in StampNames, r \in RegIds :
              (/\ Exists(subdomains[s])
               /\ subdomains[s].registrationId = r
               /\ ReserveBegin(p, s, r))
                 => /\ subdomains' = subdomains
                    /\ \/ result' = NoResult /\ proc'[p].pc = "reserve_touch"
                       \/ result' = Thrown("reserve", s, r, "store", NoId)
         /\ (/\ proc[p].op = "reserve"
             /\ Exists(subdomains[proc[p].s])
             /\ subdomains[proc[p].s].registrationId = proc[p].id
             /\ ReserveTouch(p)
             /\ result'.kind = "ok")
               => LET old == subdomains[proc[p].s]
                      new == subdomains'[proc[p].s]
                  IN  /\ result' = Returned("reserve", proc[p].s, proc[p].id, "refreshed")
                      /\ new.updatedAt = now
                      /\ new.status = old.status
                      /\ new.companyId = old.companyId
                      /\ new.registrationId = old.registrationId
                      /\ new.createdAt = old.createdAt
                      /\ new.expiresAt = old.expiresAt
                      /\ DOMAIN new = DOMAIN old
                      /\ \A other \in Subdomains \ {proc[p].s} :
                           subdomains'[other] = subdomains[other]]_vars

\* A repeated reservation has returned: the record was refreshed after it was
\* created and its expiry is the one set at creation, not one counted from
\* the repeat.
C14_Witness ==
    /\ result = Returned("reserve", Acme, "r1", "refreshed")
    /\ subdomains[Acme].registrationId = "r1"
    /\ subdomains[Acme].updatedAt = now
    /\ subdomains[Acme].createdAt < now
    /\ subdomains[Acme].expiresAt < now + ReservationTTL

\* What C15 says of the checks of the names in the set names: a check with
\* exclusion id r whose read finds a record of the name carrying
\* registrationId r answers available = true, whether the record is pending,
\* expired or active, and changes nothing.
SelfMatchAvailableOn(names) ==
    \A p \in Clients, s \in names, r \in RegIds :
       (/\ result'.s = s
        /\ result'.id = r
        /\ Exists(subdomains[s])
        /\ subdomains[s].registrationId = r
        /\ CheckRead(p, s, r, TRUE))
          => /\ result' = Answer(s, r, TRUE, "none")
             /\ proc' = proc
             /\ subdomains' = subdomains

\* C15 as stated: for every name that has a record, the check by the
\* record's own registration answers available = true whatever the status.
C15_SelfMatch_AnyName == [][SelfMatchAvailableOn(Subdomains)]_vars

\* C15 amended: for every name of at least three characters that is no
\* reserved word, the check by the registration named on the record, once
\* its read is answered, returns available = true whatever the record's
\* status, active included, and changes nothing.
C15_SelfMatch == [][SelfMatchAvailableOn({s \in Subdomains : WellFormed(s)})]_vars

\* The registration whose subdomain was activated for its company has
\* checked it and been told it is available.
C15_Witness ==
    /\ result = Answer(Acme, "r1", TRUE, "none")
    /\ IsActive(subdomains[Acme])
    /\ subdomains[Acme].registrationId = "r1"
    /\ subdomains[Acme].companyId # NoCompany

\* The steps a draft records as completed.
StepsOf(d) == IF Exists(d) THEN {d.completedSteps[i] : i \in 1..Len(d.completedSteps)} ELSE {}

\* C16: no step of saveCompanyInfo, saveAdminAccount or the completion call
\* removes a step from a draft's completedSteps: every step recorded before
\* is recorded after.
C16_CompletedStepsGrow ==
    [][\A r \in RegIds : StepsOf(drafts[r]) \subseteq StepsOf(drafts'[r])]_vars

\* C17: no step of a step save or of the completion call lowers the
\* currentStep stored on a draft.
C17_CurrentStepMonotone ==
    [][\A r \in RegIds :
         (Exists(drafts[r]) /\ Exists(drafts'[r]))
            => drafts'[r].currentStep >= drafts[r].currentStep]_vars

\* A draft whose expiresAt has passed.
DraftExpired(d, t) == Exists(d) /\ d.expiresAt < t

\* C18: a completion call on a draft whose expiresAt has passed fails as for
\* a missing draft: activateTrialAndCreateCompany does not write to it, and
\* createCompanyFromRegistration, reading it, throws instead of going on to
\* create the company and activate the subdomain.
C18_ExpiredDraftNotFound ==
    [][\A p \in FlowClients :
         /\ \A r \in RegIds, d \in Payloads :
              (DraftExpired(drafts[r], now) /\ activateTrialAndCreateCompany(p, r, d))
                 => /\ result'.kind = "error"
                    /\ drafts' = drafts
         /\ (/\ proc[p].pc = "company_read"
             /\ DraftExpired(drafts[proc[p].id], now)
             /\ CompanyRead(p))
               => /\ result'.kind = "error"
                  /\ proc'[p].pc = "idle"]_vars

\* A draft that is missing, or lacks companyInfo or adminAccount.
LacksStep(d) == ~Exists(d) \/ d.companyInfo = NoData \/ d.adminAccount = NoSub

\* C19: a completion call on a draft that lacks companyInfo or adminAccount
\* writes to no company and no subdomain record and leaves the draft lacking
\* what it lacked; when createCompanyFromRegistration reads such a draft the
\* call ends with an error, no company id is taken and nothing is written.
C19_IncompleteDraftFails ==
    [][\A p \in FlowClients :
         /\ \A r \in RegIds, d \in Payloads :
              (LacksStep(drafts[r]) /\ activateTrialAndCreateCompany(p, r, d))
                 => /\ companies' = companies
                    /\ subdomains' = subdomains
                    /\ LacksStep(drafts'[r])
                    /\ result' = NoResult \/ result'.kind = "error"
         /\ (/\ proc[p].pc = "company_read"
             /\ LacksStep(drafts[proc[p].id])
             /\ CompanyRead(p))
               => /\ result' = Thrown("activateTrial", NoSub, proc[p].id, "failed", NoId)
                  /\ proc' = Ended(p)
                  /\ UNCHANGED <<companies, subdomains, nextCompany, drafts>>]_vars

\* The completion of a draft that has its company information but no admin
\* account has been refused after its trial data were stored: no company
\* exists and no subdomain record was touched.
C19_Witness ==
    /\ result = Thrown("activateTrial", NoSub, "r1", "failed", NoId)
    /\ Exists(drafts["r1"])
    /\ drafts["r1"].companyInfo # NoData
    /\ drafts["r1"].adminAccount = NoSub
    /\ drafts["r1"].trialActivation # NoData
    /\ \A c \in CompanyIds : ~Exists(companies[c])
    /\ \A s \in Subdomains : ~Exists(subdomains[s])

\* The companies created from the draft of registration r.
CompaniesFrom(r) ==
    {c \in CompanyIds : Exists(companies[c]) /\ companies[c].from = r}

\* C20: whatever completion calls were made, repeated after a success or
\* retried after a failure, at most one company record exists that was
\* created from the draft of any one registration.
C20_OneCompanyPerRegistration ==
    \A r \in RegIds : Cardinality(CompaniesFrom(r)) <= 1

\* What C21 says of an auto-saver of one of the forms in the set forms: a
\* call runs no save, drops the pending timer and sets one a full delay
\* ahead, and no save has run between two calls less than the delay apart;
\* the timer callback runs no earlier than the delay after the last call,
\* runs the save once, with the data of the last call, leaves no timer
\* behind, and lets no error out, whether the save succeeds or throws.
SaverDebouncesIn(forms) ==
    saver.reads \in forms =>
       /\ \A d \in FormData :
            SaverCall(d)
              => /\ saver'.timer = saver.clock + Delay
                 /\ saver'.ran = 0
                 /\ saver'.passed = saver.passed
                 /\ (saver.called # NoTime /\ saver.clock - saver.called < Delay)
                       => saver.ran = 0
       /\ SaverFire
            => /\ saver.clock >= saver.called + Delay
               /\ saver'.ran = 1
               /\ saver'.passed = saver.asked
               /\ saver'.timer = NoTime
               /\ saver'.thrown = FALSE

C22_NoLostStepUpdate ==
    \A r \in RegIds :
       (/\ Exists(drafts[r])
        /\ drafts[r].companyInfo # NoData
        /\ drafts[r].adminAccount # NoSub)
          => {1, 2} \subseteq StepsOf(drafts[r])

\* C23: when saveAdminAccount(r, data) throws and the draft of r does not
\* hold data.subdomain as its admin account's subdomain from an earlier save,
\* the store holds no reservation of data.subdomain owned by r.
C23_NoPartialAdminSave ==
    [][\A r \in RegIds, s \in FlowNames :
         (/\ result'.op = "saveAdminAccount"
          /\ result'.kind = "error"
          /\ result'.id = r
          /\ result'.s = s
          /\ ~(Exists(drafts'[r]) /\ drafts'[r].adminAccount = s))
            => ~(Exists(subdomains'[s]) /\ subdomains'[s].registrationId = r)]_vars

\* C24: no step changes the expiresAt or the createdAt of a draft that
\* exists: both are those written when the draft was created.
C24_DraftExpiryFixed ==
    [][\A r \in RegIds :
         (Exists(drafts[r]) /\ Exists(drafts'[r]))
            => /\ drafts'[r].expiresAt = drafts[r].expiresAt
               /\ drafts'[r].createdAt = drafts[r].createdAt]_vars

\* The records a sweep is to delete at time t: pending, with expiresAt
\* before t.
PendingExpired(store, t) ==
    {s \in Subdomains : Exists(store[s]) /\ store[s].status = "pending"
                                        /\ store[s].expiresAt # NoTime
                                        /\ store[s].expiresAt < t}

\* The records a step removes.
Removed == {s \in Subdomains : Exists(subdomains[s]) /\ ~Exists(subdomains'[s])}

\* C25: cleanupExpiredReservations collects exactly the pending records whose
\* expiresAt is before now and deletes nothing while it reads; with none to
\* collect it returns 0.  Its commit changes no record that is active or
\* pending and unexpired, removes records and changes none otherwise, and
\* returns the number it removed, never an error; when the store applies the
\* commit of what is then pending and expired, exactly those records are
\* removed, and none is left for a second run, which returns 0.
C25_SweepExact ==
    [][\A p \in Clients :
         /\ CleanupBegin(p)
               => /\ subdomains' = subdomains
                  /\ \/ /\ result' = NoResult
                        /\ proc'[p].batch = PendingExpired(subdomains, now)
                        /\ proc'[p].batch # {}
                     \/ /\ result' = Counted(0)
                        /\ proc' = proc
                  /\ PendingExpired(subdomains, now) = {} => result' = Counted(0)
         /\ CleanupCommit(p)
               => /\ Removed \subseteq PendingExpired(subdomains, now)
                  /\ \A s \in Subdomains \ Removed : subdomains'[s] = subdomains[s]
                  /\ result' = Counted(Cardinality(Removed))
         /\ (/\ proc[p].pc = "cleanup_commit"
             /\ proc[p].batch = PendingExpired(subdomains, now)
             /\ CleanupApply(p, TRUE))
               => /\ Removed = PendingExpired(subdomains, now)
                  /\ PendingExpired(subdomains', now') = {}]_vars

\* A sweep has returned 1 after removing the expired reservation of one name
\* while the unexpired reservation of the other name stands.
C25_Witness ==
    /\ result = Counted(1)
    /\ ~Exists(subdomains[Acme])
    /\ Exists(subdomains[Www])
    /\ subdomains[Www].status = "pending"
    /\ subdomains[Www].expiresAt >= now

RECURSIVE SumOf(_)
SumOf(q) == IF q = <<>> THEN 0 ELSE Head(q) + SumOf(Tail(q))

\* C26: no batch a sweep sets aside for commit holds more than 500 deletes,
\* and when the batches are committed every document the query found is in
\* one of them: their sizes add up to the number found.
C26_BatchesBounded ==
    sweep.of \in Collections =>
       /\ \A k \in 1..Len(sweep.batches) : sweep.batches[k] <= BatchLimit
       /\ sweep.pc = "commit" => SumOf(sweep.batches) = sweep.found

\* The names registration r holds a pending reservation of.
PendingOf(r) ==
    {s \in Subdomains : /\ Exists(subdomains[s])
                        /\ subdomains[s].status = "pending"
                        /\ subdomains[s].registrationId = r}

\* C27: at any time a registration holds at most one pending reservation,
\* and once its saveAdminAccount has returned, that reservation is the one of
\* the subdomain in the draft's adminAccount.
C27_OnePendingPerRegistration ==
    \A r \in RegIds :
       /\ Cardinality(PendingOf(r)) <= 1
       /\ (result.op = "saveAdminAccount" /\ result.kind = "ok" /\ result.id = r)
             => PendingOf(r) = {drafts[r].adminAccount}

\* C28: the record a check's lazy deletion removes is, at the moment of the
\* delete, pending with expiresAt before the time of the request; when the
\* record under the key is no longer such a one, because another
\* registration reserved the name after the check's read, the delete changes
\* nothing and the check answers unavailable.
C28_LazyDeleteSparesLive ==
    [][\A p \in Clients :
         (proc[p].pc = "check_delete" /\ CheckDelete(p))
            => LET rec == subdomains[proc[p].s]
               IN  /\ subdomains' # subdomains
                        => /\ Exists(rec)
                           /\ rec.status = "pending"
                           /\ rec.expiresAt # NoTime
                           /\ rec.expiresAt < now
                           /\ \A s \in Subdomains \ {proc[p].s} :
                                subdomains'[s] = subdomains[s]
                   /\ ~(Exists(rec) /\ rec.status = "pending" /\ rec.expiresAt < now)
                        => /\ subdomains' = subdomains
                           /\ result'.available = FALSE]_vars

\* A check that went on to delete an expired reservation has answered
\* unavailable, and under its key stands an unexpired reservation of the
\* registration it did not exclude.
C28_Witness ==
    /\ result = CheckFailed(Acme, NoId)
    /\ Exists(subdomains[Acme])
    /\ subdomains[Acme].status = "pending"
    /\ subdomains[Acme].registrationId = "r2"
    /\ subdomains[Acme].expiresAt > now
    /\ now = MaxClock

\* C29: fetchCompanyBySubdomain(s) goes on to the company only from a record
\* of s that exists, is active and names a company, and returns null at once
\* otherwise and when the read fails; it returns a company only when the
\* company document named by the record exists, the one it returns, and null
\* otherwise and when that read fails.  It writes nothing.
C29_TenantOnlyActive ==
    [][\A p \in FlowClients :
         /\ \A s \in FlowNames, ok \in BOOLEAN :
              TenantRead(p, s, ok)
                => LET rec == subdomains[s]
                       good == /\ ok
                               /\ Exists(rec)
                               /\ rec.status = "active"
                               /\ rec.companyId # NoCompany
                   IN  /\ good => /\ result' = NoResult
                                  /\ proc'[p].pc = "tenant_company"
                                  /\ proc'[p].cid = rec.companyId
                       /\ ~good => /\ result' = NoTenant(s)
                                   /\ proc' = proc
                       /\ UNCHANGED <<subdomains, companies, drafts>>
         /\ \A ok \in BOOLEAN :
              (proc[p].pc = "tenant_company" /\ TenantCompany(p, ok))
                => LET good == ok /\ Exists(companies[proc[p].cid])
                   IN  /\ good => result' = Tenant(proc[p].s, proc[p].cid)
                       /\ ~good => result' = NoTenant(proc[p].s)
                       /\ UNCHANGED <<subdomains, companies, drafts>>]_vars

\* A tenant has been resolved: the record of the name is active and names
\* the company returned, which exists and was created with that subdomain.
C29_Witness ==
    /\ result.op = "fetchCompany"
    /\ result.status = "company"
    /\ result.s = Acme
    /\ IsActive(subdomains[Acme])
    /\ subdomains[Acme].companyId = result.count
    /\ Exists(companies[result.count])
    /\ companies[result.count].subdomain = Acme

\* C30: in every state, each step a draft records as completed has its
\* payload stored: 1 the company information, 2 the admin account, 3 the
\* trial activation.
C30_CompletedStepsHavePayload ==
    \A r \in RegIds :
       Exists(drafts[r])
          => /\ 1 \in StepsOf(drafts[r]) => drafts[r].companyInfo # NoData
             /\ 2 \in StepsOf(drafts[r]) => drafts[r].adminAccount # NoSub
             /\ 3 \in StepsOf(drafts[r]) => drafts[r].trialActivation # NoData

====
